---------------------------- MODULE Spec2Model ----------------------------
(***************************************************************************)
(* The counter recording pipeline of glean.js: the Context singleton       *)
(* (core/context.ts), the counter metric type                              *)
(* (core/metrics/types/counter.ts) and the collaborators they drive: the   *)
(* dispatcher, the metrics store and the error recorder.                   *)
(*                                                                         *)
(* JavaScript runs the synchronous part of a call to completion; control   *)
(* changes hands only at an await.  One action of this module is one such  *)
(* run-to-completion segment.                                              *)
(***************************************************************************)
EXTENDS Integers, Sequences, FiniteSets, TLC

(***************************************************************************)
(* Bounds of the model.                                                    *)
(***************************************************************************)
\* Number.MAX_SAFE_INTEGER (2^53 - 1), scaled down.
MAX == 3
\* How many tasks (add and testGetValue calls) are launched in one behaviour.
MaxTasks == 3
\* How many Context.testUninitialize calls complete in one behaviour.
MaxResets == 1
\* How many Dispatcher objects are constructed in one behaviour.
MaxDisp == 2

(***************************************************************************)
(* JSON values.  A value is a record [t, n]: t is its JavaScript type and  *)
(* n what distinguishes the values of that type that matter here.          *)
(*   int      the integer n                                                *)
(*   float    the non-integer number n + 0.5                               *)
(*   string   "" (n = 0) or a non-empty string (n = 1)                     *)
(*   boolean  false (n = 0) or true (n = 1)                                *)
(*   null, undefined                                                       *)
(***************************************************************************)
IntV(k) == [t |-> "int", n |-> k]
Undefined == [t |-> "undefined", n |-> 0]
Null == [t |-> "null", n |-> 0]
EmptyString == [t |-> "string", n |-> 0]
Text == [t |-> "string", n |-> 1]
False == [t |-> "boolean", n |-> 0]
Float == [t |-> "float", n |-> 1]

\* utils.isUndefined
isUndefined(v) == v.t = "undefined"

\* utils.isInteger
isInteger(v) == v.t = "int"

\* JavaScript's ToBoolean, as `if (v)` applies it.
Truthy(v) ==
  CASE v.t = "int" -> v.n # 0
    [] v.t = "float" -> TRUE
    [] v.t = "string" -> v.n # 0
    [] v.t = "boolean" -> v.n = 1
    [] OTHER -> FALSE

\* The amounts a caller passes to add(): omitted, a non-integer number, and
\* the integers from -1 to MAX + 1.
Amounts == {Undefined, Float} \cup {IntV(k) : k \in -1..(MAX + 1)}

\* What the store may hold for a metric when the program starts.
InitRaw ==
  {Undefined, Null, EmptyString, Text, False, Float}
    \cup {IntV(k) : k \in {-1, 0}}

ErrorTypes == {"InvalidValue", "InvalidType"}

VARIABLES
  dispatcher,       \* Context._dispatcher: 0 (absent) or a Dispatcher's id
  uploadEnabled,    \* Context._uploadEnabled: "undefined", "true" or "false"
  metricsDatabase,  \* Context._metricsDatabase: "undefined" or "db"
  errorManager,     \* Context._errorManager: "undefined" or "em"
  initialized,      \* Context._initialized
  uninit,           \* Context.testUninitialize: 0, or the Dispatcher awaited
  created,          \* how many Dispatcher objects exist (ids 1..created)
  queue,            \* each Dispatcher's pending tasks, oldest first
  running,          \* each Dispatcher's task in execution, or NoTask
  stopping,         \* each Dispatcher: its testUninitialize was called
  launched,         \* how many tasks were launched; a task's id is its rank
  store,            \* the metrics store: the counter's persisted value
  errors,           \* the error recorder: occurrences per error type
  step,             \* what the last step did (StepNone: nothing recorded)
  lastBegun,        \* the last task a Dispatcher has begun
  resets,           \* how many Context.testUninitialize calls completed
  fields,           \* the other guarded fields of the Context: "undefined"
                    \* or "set"
  got               \* the last read of a guarded field: what the getter
                    \* returned and how many messages it logged

vars ==
  << dispatcher, uploadEnabled, metricsDatabase, errorManager, initialized,
     uninit, created, queue, running, stopping, launched, store, errors,
     step, lastBegun, resets, fields, got >>

Dispatchers == 1..MaxDisp

\* The guarded fields of the Context that the counter does not read.
OtherFields ==
  {"eventsDatabase", "pingsDatabase", "applicationId", "debugOptions"}

\* The fields of the Context whose getter checks that they were set.
GuardedFields ==
  {"uploadEnabled", "metricsDatabase", "errorManager"} \cup OtherFields

GotNone == [field |-> "none", value |-> "undefined", log |-> 0]

(***************************************************************************)
(* The counter's value wrapper (CounterMetric) and the transform function. *)
(***************************************************************************)
\* CounterMetric.validate with v < 0 for v <= 0: zero is accepted.
validate_ZeroAccepted(v) ==
  IF ~isInteger(v)
    THEN [type |-> "Error", errorType |-> "none"]
    ELSE IF v.n < 0
      THEN [type |-> "Error", errorType |-> "InvalidValue"]
      ELSE [type |-> "Success", errorType |-> "none"]

\* CounterMetric.validate: the validation outcome of a candidate value.
validate(v) ==
  IF ~isInteger(v)
    THEN [type |-> "Error", errorType |-> "none"]
    ELSE IF v.n <= 0
      THEN [type |-> "Error", errorType |-> "InvalidValue"]
      ELSE [type |-> "Success", errorType |-> "none"]

\* MetricValidationError: the error type a failed validation is recorded
\* under; an outcome that names none is an InvalidType.
errorTypeOf(outcome) ==
  IF outcome.errorType = "none" THEN "InvalidType" ELSE outcome.errorType

\* Metric.validateOrThrow: the value, or a thrown MetricValidationError.
validateOrThrow(v) ==
  LET outcome == validate(v) IN
  IF outcome.type = "Error"
    THEN [threw |-> TRUE, type |-> errorTypeOf(outcome), value |-> v]
    ELSE [threw |-> FALSE, type |-> "none", value |-> v]

\* utils.saturatingAdd: the sum, clamped at Number.MAX_SAFE_INTEGER.
saturatingAdd(a, b) == IF a + b > MAX THEN MAX ELSE a + b

\* CounterMetric.saturatingAdd on a wrapper holding `inner`: the new inner
\* value, or a thrown MetricValidationError when `amount` is not valid.
CounterMetric_saturatingAdd(inner, amount) ==
  LET correctAmount == validateOrThrow(amount) IN
  IF correctAmount.threw
    THEN [threw |-> TRUE, inner |-> inner]
    ELSE [threw |-> FALSE, inner |-> saturatingAdd(inner, correctAmount.value.n)]

\* transformFn without the merge: the stored value is overwritten.
transformFn_Overwrite(amount, v) ==
  LET metric == validateOrThrow(amount) IN
  IF metric.threw
    THEN [threw |-> TRUE, type |-> metric.type, inner |-> 0, logged |-> 0]
    ELSE [threw |-> FALSE, type |-> "none", inner |-> amount.n, logged |-> 0]

\* transformFn without the try block around the merge: a stored value that
\* cannot be merged makes the transform throw.
transformFn_NoInnerCatch(amount, v) ==
  LET metric == validateOrThrow(amount) IN
  IF metric.threw
    THEN [threw |-> TRUE, type |-> metric.type, inner |-> 0, logged |-> 0]
    ELSE IF Truthy(v)
      THEN LET merged == CounterMetric_saturatingAdd(amount.n, v) IN
           IF merged.threw
             THEN [threw |-> TRUE, type |-> validateOrThrow(v).type,
                   inner |-> 0, logged |-> 0]
             ELSE [threw |-> FALSE, type |-> "none", inner |-> merged.inner,
                   logged |-> 0]
      ELSE [threw |-> FALSE, type |-> "none", inner |-> amount.n, logged |-> 0]

\* transformFn of addUndispatched, applied by the store to the value `v` it
\* holds: new CounterMetric(amount) throws when amount is not valid;
\* otherwise a truthy v is merged in, and a v that cannot be merged is
\* logged and dropped.
transformFn(amount, v) ==
  LET metric == validateOrThrow(amount) IN
  IF metric.threw
    THEN [threw |-> TRUE, type |-> metric.type, inner |-> 0, logged |-> 0]
    ELSE IF Truthy(v)
      THEN LET merged == CounterMetric_saturatingAdd(amount.n, v) IN
           IF merged.threw
             THEN [threw |-> FALSE, type |-> "none", inner |-> amount.n,
                   logged |-> 1]
             ELSE [threw |-> FALSE, type |-> "none", inner |-> merged.inner,
                   logged |-> 0]
      ELSE [threw |-> FALSE, type |-> "none", inner |-> amount.n, logged |-> 0]

\* MetricType.shouldRecord: recording is permitted (the metric itself is
\* not disabled) when upload is enabled.
shouldRecord(upload) == upload = "true"



(***************************************************************************)
(* Tasks.  A task is what add() or testGetValue() hands to the dispatcher. *)
(*   status   queued; transform (the store's transform is in progress);    *)
(*            recordError (the error recorder is in progress); getMetric   *)
(*            (the store's read is in progress)                            *)
(* A step of a task leaves in `step` the task's id and amount, what the    *)
(* store held before the step, how many messages the step logged, and its  *)
(* outcome:                                                                *)
(*   begun      the store operation was started                            *)
(*   skipped    recording is not permitted: the task ended                 *)
(*   nodb       no store handle: the task ended                            *)
(*   iofail     the store operation failed: the task ended                 *)
(*   threw      transformFn threw a validation error: nothing written      *)
(*   written    the store wrote the transform's result: the task ended     *)
(*   invalid    the validation error was recorded: the task ended          *)
(*   rejected   the task's promise rejected                                *)
(*   read       the store's value was read: testLaunch resolved            *)
(*   cancelled  the task was dropped from the queue                        *)
(***************************************************************************)
NewTask(kind, amount) ==
  [id |-> launched + 1, kind |-> kind, amount |-> amount,
   status |-> "queued", errType |-> "none"]

NoTask ==
  [id |-> 0, kind |-> "none", amount |-> Undefined, status |-> "none",
   errType |-> "none"]

StepNone ==
  [id |-> 0, outcome |-> "none", amount |-> Undefined, pre |-> Undefined,
   contextLog |-> 0, counterLog |-> 0]

Step(t, outcome, contextLog, counterLog) ==
  [id |-> t.id, outcome |-> outcome, amount |-> t.amount, pre |-> store,
   contextLog |-> contextLog, counterLog |-> counterLog]

Init ==
  /\ dispatcher = 0
  /\ uploadEnabled = "undefined"
  /\ metricsDatabase = "undefined"
  /\ errorManager = "undefined"
  /\ initialized = FALSE
  /\ uninit = 0
  /\ created = 0
  /\ queue = [d \in Dispatchers |-> << >>]
  /\ running = [d \in Dispatchers |-> NoTask]
  /\ stopping = [d \in Dispatchers |-> FALSE]
  /\ launched = 0
  /\ store \in InitRaw
  /\ errors = [e \in ErrorTypes |-> 0]
  /\ step = StepNone
  /\ lastBegun = 0
  /\ resets = 0
  /\ fields = [f \in OtherFields |-> "undefined"]
  /\ got = GotNone

(***************************************************************************)
(* The Context.                                                            *)
(***************************************************************************)
\* get Context.dispatcher handing out the Dispatcher created last, when
\* there is one, instead of a new one.
ContextDispatcher_Stale ==
  IF dispatcher = 0 THEN (IF created = 0 THEN 1 ELSE created) ELSE dispatcher

\* get Context.dispatcher without its check of the field: a new Dispatcher at
\* every access.
ContextDispatcher_AlwaysNew == created + 1

\* get Context.dispatcher: the Dispatcher the Context holds, a new one when
\* it holds none.
ContextDispatcher == IF dispatcher = 0 THEN created + 1 ELSE dispatcher

\* A guarded getter testing its field for falsiness instead: a flag set to
\* false is reported as unset.
GetterLog_Falsy(field) == IF field \in {"undefined", "false"} THEN 1 ELSE 0

\* A guarded getter logs one error-level message when its field is unset.
GetterLog(field) == IF field = "undefined" THEN 1 ELSE 0

\* set Context.uploadEnabled
SetUploadEnabled(upload) ==
  /\ UNCHANGED << fields, got >>
  /\ uploadEnabled' = upload
  /\ step' = StepNone
  /\ UNCHANGED << dispatcher, metricsDatabase, errorManager, initialized,
                  uninit, created, queue, running, stopping, launched, store,
                  errors, lastBegun, resets >>

\* set Context.metricsDatabase
SetMetricsDatabase ==
  /\ UNCHANGED << fields, got >>
  /\ metricsDatabase' = "db"
  /\ step' = StepNone
  /\ UNCHANGED << dispatcher, uploadEnabled, errorManager, initialized,
                  uninit, created, queue, running, stopping, launched, store,
                  errors, lastBegun, resets >>

\* set Context.errorManager
SetErrorManager ==
  /\ UNCHANGED << fields, got >>
  /\ errorManager' = "em"
  /\ step' = StepNone
  /\ UNCHANGED << dispatcher, uploadEnabled, metricsDatabase, initialized,
                  uninit, created, queue, running, stopping, launched, store,
                  errors, lastBegun, resets >>

\* set Context.initialized
SetInitialized(init) ==
  /\ UNCHANGED << fields, got >>
  /\ initialized' = init
  /\ step' = StepNone
  /\ UNCHANGED << dispatcher, uploadEnabled, metricsDatabase, errorManager,
                  uninit, created, queue, running, stopping, launched, store,
                  errors, lastBegun, resets >>

\* The setters of the other guarded fields.
SetField(f) ==
  /\ fields' = [fields EXCEPT ![f] = "set"]
  /\ step' = StepNone
  /\ UNCHANGED << dispatcher, uploadEnabled, metricsDatabase, errorManager,
                  initialized, uninit, created, queue, running, stopping,
                  launched, store, errors, lastBegun, resets, got >>

\* What the private field behind a guarded getter holds.
FieldValue(f) ==
  CASE f = "uploadEnabled" -> uploadEnabled
    [] f = "metricsDatabase" -> metricsDatabase
    [] f = "errorManager" -> errorManager
    [] OTHER -> fields[f]

\* A read of the guarded field f: the getter logs when the field is unset
\* and returns what the field holds.
Get(f) ==
  /\ got' = [field |-> f, value |-> FieldValue(f),
             log |-> GetterLog(FieldValue(f))]
  /\ step' = StepNone
  /\ UNCHANGED << dispatcher, uploadEnabled, metricsDatabase, errorManager,
                  initialized, uninit, created, queue, running, stopping,
                  launched, store, errors, lastBegun, resets, fields >>

\* Context.testUninitialize without the await: the Dispatcher's
\* testUninitialize is called and the reference is cleared at once.
TestUninitializeCall_NoAwait ==
  /\ UNCHANGED << fields, got >>
  /\ uninit = 0
  /\ resets < MaxResets
  /\ IF dispatcher # 0
       THEN stopping' = [stopping EXCEPT ![dispatcher] = TRUE]
       ELSE UNCHANGED stopping
  /\ dispatcher' = 0
  /\ initialized' = FALSE
  /\ resets' = resets + 1
  /\ step' = StepNone
  /\ UNCHANGED << uploadEnabled, metricsDatabase, errorManager, created,
                  queue, running, launched, store, errors, lastBegun, uninit >>

\* Context.testUninitialize, up to its await: with a Dispatcher held, its
\* testUninitialize is called and awaited; with none, the call runs to its
\* end at once.
TestUninitializeCall ==
  /\ UNCHANGED << fields, got >>
  /\ uninit = 0
  /\ resets < MaxResets
  /\ IF dispatcher # 0
       THEN /\ stopping' = [stopping EXCEPT ![dispatcher] = TRUE]
            /\ uninit' = dispatcher
            /\ UNCHANGED << dispatcher, initialized, resets >>
       ELSE /\ dispatcher' = 0
            /\ initialized' = FALSE
            /\ resets' = resets + 1
            /\ UNCHANGED << stopping, uninit >>
  /\ step' = StepNone
  /\ UNCHANGED << uploadEnabled, metricsDatabase, errorManager, created,
                  queue, running, launched, store, errors, lastBegun >>

\* Context.testUninitialize wiping the whole Context instead of the
\* dispatcher reference alone.
TestUninitializeReturn_Wipe ==
  /\ UNCHANGED << fields, got >>
  /\ uninit # 0
  /\ queue[uninit] = << >>
  /\ running[uninit] = NoTask
  /\ dispatcher' = 0
  /\ initialized' = FALSE
  /\ uninit' = 0
  /\ resets' = resets + 1
  /\ step' = StepNone
  /\ uploadEnabled' = "undefined"
  /\ metricsDatabase' = "undefined"
  /\ errorManager' = "undefined"
  /\ UNCHANGED << created, queue, running, stopping, launched, store, errors,
                  lastBegun >>

\* Context.testUninitialize, after its await: the awaited Dispatcher has
\* nothing queued and nothing in execution.
TestUninitializeReturn ==
  /\ UNCHANGED << fields, got >>
  /\ uninit # 0
  /\ queue[uninit] = << >>
  /\ running[uninit] = NoTask
  /\ dispatcher' = 0
  /\ initialized' = FALSE
  /\ uninit' = 0
  /\ resets' = resets + 1
  /\ step' = StepNone
  /\ UNCHANGED << uploadEnabled, metricsDatabase, errorManager, created,
                  queue, running, stopping, launched, store, errors,
                  lastBegun >>

(***************************************************************************)
(* The public calls.                                                       *)
(***************************************************************************)
\* Dispatcher.launch and Dispatcher.testLaunch: the task joins the end of
\* Dispatcher d's queue, and the call returns.
Launch(d, task) ==
  /\ d <= MaxDisp
  /\ dispatcher' = d
  /\ created' = IF d > created THEN d ELSE created
  /\ launched' = launched + 1
  /\ queue' = [queue EXCEPT ![d] = Append(@, task)]

\* add(amount) validating the amount itself: an amount that is not valid
\* is thrown back at the caller and no task is launched.
Add_ValidateFirst(amount) ==
  /\ UNCHANGED << fields, got >>
  /\ launched < MaxTasks
  /\ IF ~isUndefined(amount) /\ validate(amount).type = "Error"
       THEN /\ launched' = launched + 1
            /\ step' = Step(NewTask("add", amount), "rejected", 0, 0)
            /\ UNCHANGED << dispatcher, created, queue >>
       ELSE /\ Launch(ContextDispatcher, NewTask("add", amount))
            /\ step' = StepNone
  /\ UNCHANGED << uploadEnabled, metricsDatabase, errorManager, initialized,
                  uninit, running, stopping, store, errors, lastBegun,
                  resets >>

\* add(amount) checking the enablement flag itself: nothing is launched
\* while recording is not permitted.
Add_CheckFirst(amount) ==
  /\ UNCHANGED << fields, got >>
  /\ launched < MaxTasks
  /\ shouldRecord(uploadEnabled)
  /\ Launch(ContextDispatcher, NewTask("add", amount))
  /\ step' = StepNone
  /\ UNCHANGED << uploadEnabled, metricsDatabase, errorManager, initialized,
                  uninit, running, stopping, store, errors, lastBegun,
                  resets >>

\* add(amount)
Add(amount) ==
  /\ UNCHANGED << fields, got >>
  /\ launched < MaxTasks
  /\ Launch(ContextDispatcher, NewTask("add", amount))
  /\ step' = StepNone
  /\ UNCHANGED << uploadEnabled, metricsDatabase, errorManager, initialized,
                  uninit, running, stopping, store, errors, lastBegun,
                  resets >>

\* testGetValue() reading the store itself instead of launching a task.
TestGetValue_Direct ==
  /\ UNCHANGED << fields, got >>
  /\ launched < MaxTasks
  /\ metricsDatabase = "db"
  /\ launched' = launched + 1
  /\ step' = Step(NewTask("test", Undefined), "read", 0, 0)
  /\ UNCHANGED << dispatcher, uploadEnabled, metricsDatabase, errorManager,
                  initialized, uninit, created, queue, running, stopping,
                  store, errors, lastBegun, resets >>

\* testGetValue(), to the point where it awaits testLaunch.
TestGetValue ==
  /\ UNCHANGED << fields, got >>
  /\ launched < MaxTasks
  /\ Launch(ContextDispatcher, NewTask("test", Undefined))
  /\ step' = StepNone
  /\ UNCHANGED << uploadEnabled, metricsDatabase, errorManager, initialized,
                  uninit, running, stopping, store, errors, lastBegun,
                  resets >>

(***************************************************************************)
(* The recording task: addUndispatched, in the segments its awaits cut it  *)
(* into, and the task of testGetValue.                                     *)
(***************************************************************************)
\* addUndispatched without the default: an omitted amount stays undefined.
defaultAmount_Missing(amount) == amount

\* addUndispatched: an omitted amount is 1.
defaultAmount(amount) == IF isUndefined(amount) THEN IntV(1) ELSE amount

\* The catch block of addUndispatched trying the store again after an
\* error that is no MetricValidationError.
addUndispatched_catch_Retry(t, isValidationError, errType) ==
  IF isValidationError
    THEN [t EXCEPT !.status = "recordError", !.errType = errType]
    ELSE [t EXCEPT !.status = "transform"]

\* The catch block of addUndispatched: a MetricValidationError goes to the
\* error recorder (the task goes on), any other error ends the task there.
addUndispatched_catch(t, isValidationError, errType) ==
  IF isValidationError
    THEN [t EXCEPT !.status = "recordError", !.errType = errType]
    ELSE NoTask

\* addUndispatched recording only once the library is initialized.
addUndispatched_enter_NeedsInit(t) ==
  IF ~initialized \/ ~shouldRecord(uploadEnabled)
    THEN [task |-> NoTask, outcome |-> "skipped",
          log |-> GetterLog(uploadEnabled)]
    ELSE IF metricsDatabase = "undefined"
      THEN [task |-> addUndispatched_catch(t, FALSE, "none"),
            outcome |-> "nodb", log |-> GetterLog(metricsDatabase)]
      ELSE [task |-> [t EXCEPT !.status = "transform"], outcome |-> "begun",
            log |-> 0]

\* addUndispatched without its first statement: the task goes to the store
\* whether recording is permitted or not.
addUndispatched_enter_NoCheck(t) ==
  IF metricsDatabase = "undefined"
    THEN [task |-> addUndispatched_catch(t, FALSE, "none"),
          outcome |-> "nodb", log |-> GetterLog(metricsDatabase)]
    ELSE [task |-> [t EXCEPT !.status = "transform"], outcome |-> "begun",
          log |-> 0]

\* addUndispatched up to its await of the store's transform.  Reading
\* transform from an absent store handle is a TypeError, thrown inside the
\* try block.
addUndispatched_enter(t) ==
  IF ~shouldRecord(uploadEnabled)
    THEN [task |-> NoTask, outcome |-> "skipped",
          log |-> GetterLog(uploadEnabled)]
    ELSE IF metricsDatabase = "undefined"
      THEN [task |-> addUndispatched_catch(t, FALSE, "none"),
            outcome |-> "nodb", log |-> GetterLog(metricsDatabase)]
      ELSE [task |-> [t EXCEPT !.status = "transform"], outcome |-> "begun",
            log |-> 0]

\* The task of testGetValue up to its await of the store's getMetric.  No
\* try block surrounds it: with an absent store handle the task rejects.
testGetValue_enter(t) ==
  IF metricsDatabase = "undefined"
    THEN [task |-> NoTask, outcome |-> "rejected",
          log |-> GetterLog(metricsDatabase)]
    ELSE [task |-> [t EXCEPT !.status = "getMetric"], outcome |-> "begun",
          log |-> 0]

(***************************************************************************)
(* The dispatcher.                                                         *)
(***************************************************************************)
\* Dispatcher d takes the oldest task of its queue and runs it up to its
\* first await; a task that ended there leaves the Dispatcher free.
Execute(d) ==
  /\ UNCHANGED << fields, got >>
  /\ d <= created
  /\ running[d] = NoTask
  /\ queue[d] # << >>
  /\ LET t == Head(queue[d])
         r == IF t.kind = "add"
                THEN addUndispatched_enter(t)
                ELSE testGetValue_enter(t)
     IN /\ queue' = [queue EXCEPT ![d] = Tail(@)]
        /\ running' = [running EXCEPT ![d] = r.task]
        /\ lastBegun' = t.id
        /\ step' = Step(t, r.outcome, r.log, 0)
  /\ UNCHANGED << dispatcher, uploadEnabled, metricsDatabase, errorManager,
                  initialized, uninit, created, stopping, launched, store,
                  errors, resets >>

\* Dispatcher.testUninitialize in progress: a queued task is dropped
\* instead of run.
Cancel(d) ==
  /\ UNCHANGED << fields, got >>
  /\ d <= created
  /\ stopping[d]
  /\ queue[d] # << >>
  /\ queue' = [queue EXCEPT ![d] = Tail(@)]
  /\ step' = Step(Head(queue[d]), "cancelled", 0, 0)
  /\ UNCHANGED << dispatcher, uploadEnabled, metricsDatabase, errorManager,
                  initialized, uninit, created, running, stopping, launched,
                  store, errors, lastBegun, resets >>

(***************************************************************************)
(* The store and the error recorder.                                       *)
(***************************************************************************)
\* MetricsDatabase.transform completes for Dispatcher d's task: it fails
\* (an I/O failure), or it applies transformFn to the value it holds and
\* writes the result's payload; transformFn throwing, nothing is written.
StoreTransform(d) ==
  /\ UNCHANGED << fields, got >>
  /\ d <= created
  /\ running[d].status = "transform"
  /\ \E fails \in BOOLEAN :
       LET t == running[d]
           r == transformFn(defaultAmount(t.amount), store)
       IN IF fails
            THEN /\ running' = [running EXCEPT ![d] =
                                 addUndispatched_catch(t, FALSE, "none")]
                 /\ step' = Step(t, "iofail", 0, 0)
                 /\ UNCHANGED store
            ELSE IF r.threw
              THEN /\ running' = [running EXCEPT ![d] =
                                   addUndispatched_catch(t, TRUE, r.type)]
                   /\ step' = Step(t, "threw", 0, 0)
                   /\ UNCHANGED store
              ELSE /\ store' = IntV(r.inner)
                   /\ running' = [running EXCEPT ![d] = NoTask]
                   /\ step' = Step(t, "written", 0, r.logged)
  /\ UNCHANGED << dispatcher, uploadEnabled, metricsDatabase, errorManager,
                  initialized, uninit, created, queue, stopping, launched,
                  errors, lastBegun, resets >>

\* MetricValidationError.recordError completes for Dispatcher d's task: one
\* occurrence of the error's type is recorded against the metric.  With an
\* absent error recorder handle the call throws, out of the catch block.
RecordError(d) ==
  /\ UNCHANGED << fields, got >>
  /\ d <= created
  /\ running[d].status = "recordError"
  /\ IF errorManager = "undefined"
       THEN /\ step' = Step(running[d], "rejected", 1, 0)
            /\ UNCHANGED errors
       ELSE /\ step' = Step(running[d], "invalid", 0, 0)
            /\ errors' = [errors EXCEPT ![running[d].errType] = @ + 1]
  /\ running' = [running EXCEPT ![d] = NoTask]
  /\ UNCHANGED << dispatcher, uploadEnabled, metricsDatabase, errorManager,
                  initialized, uninit, created, queue, stopping, launched,
                  store, lastBegun, resets >>

\* MetricsDatabase.getMetric completes for Dispatcher d's task: the task of
\* testGetValue has the stored value (`pre` of the step), and testLaunch
\* resolves.
GetMetric(d) ==
  /\ UNCHANGED << fields, got >>
  /\ d <= created
  /\ running[d].status = "getMetric"
  /\ step' = Step(running[d], "read", 0, 0)
  /\ running' = [running EXCEPT ![d] = NoTask]
  /\ UNCHANGED << dispatcher, uploadEnabled, metricsDatabase, errorManager,
                  initialized, uninit, created, queue, stopping, launched,
                  store, errors, lastBegun, resets >>

Next ==
  \/ \E upload \in {"true", "false"} : SetUploadEnabled(upload)
  \/ SetMetricsDatabase
  \/ SetErrorManager
  \/ SetInitialized(TRUE)
  \/ TestUninitializeCall
  \/ TestUninitializeReturn
  \/ \E amount \in Amounts : Add(amount)
  \/ TestGetValue
  \/ \E d \in Dispatchers : Execute(d)
  \/ \E d \in Dispatchers : Cancel(d)
  \/ \E d \in Dispatchers : StoreTransform(d)
  \/ \E d \in Dispatchers : RecordError(d)
  \/ \E d \in Dispatchers : GetMetric(d)

Spec == Init /\ [][Next]_vars

\* The event loop runs every continuation that is ready, and the store and
\* the error recorder complete every operation they were handed.
Fairness ==
  \A d \in Dispatchers :
    /\ WF_vars(Execute(d))
    /\ WF_vars(StoreTransform(d))
    /\ WF_vars(RecordError(d))
    /\ WF_vars(GetMetric(d))

\* The Context once the library has started: the handles are set, upload is
\* enabled, nothing is stored yet.
InitStarted ==
  /\ dispatcher = 0
  /\ uploadEnabled = "true"
  /\ metricsDatabase = "db"
  /\ errorManager = "em"
  /\ initialized = TRUE
  /\ uninit = 0
  /\ created = 0
  /\ queue = [d \in Dispatchers |-> << >>]
  /\ running = [d \in Dispatchers |-> NoTask]
  /\ stopping = [d \in Dispatchers |-> FALSE]
  /\ launched = 0
  /\ store = Undefined
  /\ errors = [e \in ErrorTypes |-> 0]
  /\ step = StepNone
  /\ lastBegun = 0
  /\ resets = 0
  /\ fields = [f \in OtherFields |-> "undefined"]
  /\ got = GotNone

FairSpec == InitStarted /\ [][Next]_vars /\ Fairness

\* The Context's guarded fields on their own: any field is set or read at
\* any time.
ContextNext ==
  \/ \E upload \in {"true", "false"} : SetUploadEnabled(upload)
  \/ SetMetricsDatabase
  \/ SetErrorManager
  \/ \E f \in OtherFields : SetField(f)
  \/ \E f \in GuardedFields : Get(f)

ContextSpec == Init /\ [][ContextNext]_vars

(***************************************************************************)
(* What is checked.                                                        *)
(***************************************************************************)
InFlight == {d \in Dispatchers : running[d] # NoTask}

Queued == UNION {{queue[d][k] : k \in 1..Len(queue[d])} : d \in Dispatchers}

\* C1: tasks begin in the order they were launched, and one at a time: a
\* task in execution or already begun is older than every task still
\* queued, on any Dispatcher, and at no time are the store operations of two
\* tasks in progress.
C1_Serialized ==
  /\ Cardinality(InFlight) <= 1
  /\ \A d \in InFlight : running[d].id <= lastBegun
  /\ \A t \in Queued : t.id > lastBegun
  /\ \A d \in Dispatchers : \A j, k \in 1..Len(queue[d]) :
       j < k => queue[d][j].id < queue[d][k].id

\* C1: the second task launched has its store operation in progress (the
\* first one's has completed) while a third waits in the queue.
C1_Witness ==
  /\ lastBegun = 2
  /\ \E d \in Dispatchers :
       /\ running[d].id = 2
       /\ running[d].status = "transform"
       /\ Len(queue[d]) = 1
  /\ store = IntV(1)

Min(a, b) == IF a < b THEN a ELSE b

Valid == {IntV(k) : k \in 1..MAX}

\* C2: with nothing stored, add(a) leaves a, and add(b) onto the a recorded
\* before leaves min(a + b, MAX), for all a and b in 1..MAX; the result is
\* the same for a then b and for b then a, and no update is lost.
C2_SumOfTwo ==
  (step.outcome = "written" /\ step.amount \in Valid) =>
    /\ step.pre = Undefined => store = step.amount
    /\ step.pre \in Valid =>
         /\ store = IntV(Min(step.pre.n + step.amount.n, MAX))
         /\ store = IntV(Min(step.amount.n + step.pre.n, MAX))

\* C2: the second of two add() calls, made with upload enabled and nothing
\* stored, has been applied, and the sum went past MAX.
C2_Witness ==
  /\ step.outcome = "written"
  /\ step.id = 2
  /\ launched = 2
  /\ step.pre \in Valid
  /\ step.amount \in Valid
  /\ step.pre.n + step.amount.n > MAX
  /\ Queued = {}
  /\ uploadEnabled = "true"

NonPositive == {IntV(k) : k \in {-1, 0}}

\* C3: with upload enabled, while the task of an add() of an integer <= 0
\* is in execution no step changes the stored value; its transform, unless
\* the store itself fails, writes nothing and hands an InvalidValue error
\* to the error recorder; the error recorder (when set) then records
\* exactly one InvalidValue occurrence and the task ends normally.
C3_NonPositiveRecordsError ==
  [][\A d \in Dispatchers :
       (running[d].kind = "add" /\ running[d].amount \in NonPositive) =>
         /\ store' = store
         /\ (running[d].status = "transform" /\ running'[d] # running[d]
               /\ step'.outcome # "iofail") =>
              /\ step'.outcome = "threw"
              /\ running'[d] = [running[d] EXCEPT !.status = "recordError",
                                                  !.errType = "InvalidValue"]
              /\ errors' = errors
         /\ (running[d].status = "recordError" /\ running'[d] # running[d]
               /\ errorManager = "em") =>
              /\ step'.outcome = "invalid"
              /\ running'[d] = NoTask
              /\ errors' = [errors EXCEPT !["InvalidValue"] = @ + 1]
         /\ (running'[d] = running[d]) => errors' = errors]_vars

\* C3: an add() of an integer <= 0 onto a stored counter has ended: one
\* InvalidValue occurrence is recorded and the stored value is what it was.
C3_Witness ==
  /\ step.outcome = "invalid"
  /\ step.amount \in NonPositive
  /\ step.pre \in Valid
  /\ store = step.pre
  /\ errors = [e \in ErrorTypes |-> IF e = "InvalidValue" THEN 1 ELSE 0]
  /\ InFlight = {}

\* The stored values that fail the counter's validation: non-integer,
\* of a foreign type, or an integer <= 0.
Corrupt == {Null, EmptyString, Text, False, Float, IntV(-1), IntV(0)}

\* The amounts that pass the counter's validation.
Positive == {IntV(k) : k \in 1..(MAX + 1)}

\* C4: a recording onto nothing, or onto a counter recorded before, writes a
\* value in 1..MAX that is not below the counter it was merged into: the
\* stored value never exceeds MAX and never decreases.
C4_StoredWithinMax ==
  (step.outcome = "written" /\ step.pre \in {Undefined} \cup Positive) =>
    /\ store \in Valid
    /\ step.pre \in Positive => step.pre.n <= store.n

\* C5: the transform of an add() of a valid delta that finds a corrupt
\* value stored writes, unless the store itself fails, exactly the delta,
\* ends the task there and records no error occurrence.
C5_CorruptOverwritten ==
  [][\A d \in Dispatchers :
       (/\ running[d].status = "transform"
        /\ running[d].amount \in Positive
        /\ store \in Corrupt
        /\ running'[d] # running[d]
        /\ step'.outcome # "iofail") =>
         /\ step'.outcome = "written"
         /\ store' = running[d].amount
         /\ running'[d] = NoTask
         /\ errors' = errors]_vars

\* C5: a non-empty string was stored, and an add() of a valid delta has
\* replaced it by the delta; no error occurrence is recorded.
C5_Witness ==
  /\ step.outcome = "written"
  /\ step.pre = Text
  /\ step.amount \in Positive
  /\ store = step.amount
  /\ errors = [e \in ErrorTypes |-> 0]
  /\ errorManager = "em"

\* C6: while the store read of a testGetValue() is in progress every task
\* launched before it has ended and none launched after it has begun; the
\* value it returns is the value stored at that moment.
C6_ReadAfterWrite ==
  /\ \A d \in Dispatchers :
       running[d].status = "getMetric" =>
         /\ InFlight = {d}
         /\ lastBegun = running[d].id
         /\ \A t \in Queued : t.id > running[d].id
  /\ step.outcome = "read" =>
       /\ step.pre = store
       /\ InFlight = {}
       /\ lastBegun = step.id
       /\ \A t \in Queued : t.id > step.id

\* C6: an add(), a testGetValue() and another add() were launched in that
\* order; the testGetValue() has returned the first add()'s value while the
\* second add() is still queued.
C6_Witness ==
  /\ step.outcome = "read"
  /\ step.id = 2
  /\ step.pre \in Valid
  /\ \E t \in Queued : t.id = 3 /\ t.kind = "add" /\ t.amount \in Valid

\* C7: a step of Context.testUninitialize (its call, its return) leaves
\* the store handle, the error recorder handle and the enablement flag as
\* they were, and so do its two steps together; of the Context's handles
\* only the dispatcher reference is cleared.
C7_ResetKeepsHandles ==
  [][(resets' # resets \/ uninit' # uninit) =>
       /\ metricsDatabase' = metricsDatabase
       /\ errorManager' = errorManager
       /\ uploadEnabled' = uploadEnabled
       /\ store' = store
       /\ errors' = errors
       /\ resets' # resets => dispatcher' = 0]_vars

\* C7: Context.testUninitialize has returned, having found a Dispatcher;
\* the dispatcher reference is absent and the three handles are still set.
C7_Witness ==
  /\ resets = 1
  /\ created = 1
  /\ dispatcher = 0
  /\ metricsDatabase = "db"
  /\ errorManager = "em"
  /\ uploadEnabled = "true"

\* The task with id i is queued or in execution.
Pending(i) ==
  \/ \E t \in Queued : t.id = i
  \/ \E d \in InFlight : running[d].id = i

\* C8: an add() made after Context.testUninitialize has returned finds no
\* Dispatcher and creates one, which has the task as its only one and is
\* not stopping; with the store and the error recorder still set and upload
\* enabled, the task of a valid amount is eventually applied to the store,
\* unless upload is disabled, the store operation fails or a later
\* testUninitialize drops the task before that.
C8_ResetThenAdd ==
  /\ [][(resets > 0 /\ dispatcher = 0 /\ launched' = launched + 1) =>
          /\ dispatcher' = created + 1
          /\ created' = created + 1
          /\ ~stopping'[dispatcher']
          /\ Len(queue'[dispatcher']) = 1
          /\ queue'[dispatcher'][1].id = launched']_vars
  /\ \A i \in 1..MaxTasks :
       (/\ resets > 0
        /\ metricsDatabase = "db"
        /\ errorManager = "em"
        /\ uploadEnabled = "true"
        /\ \E t \in Queued : t.id = i /\ t.kind = "add" /\ t.amount \in Positive)
         ~> (/\ step.id = i
             /\ step.outcome \in {"written", "skipped", "iofail", "cancelled"}
             /\ step.outcome = "written" => store \in Positive)

\* C8: after a reset that found a Dispatcher, an add() on a second
\* Dispatcher has been applied to the store.
C8_Witness ==
  /\ resets = 1
  /\ created = 2
  /\ dispatcher = 2
  /\ step.outcome = "written"
  /\ step.id = launched
  /\ store \in Valid
  /\ metricsDatabase = "db"

\* C9: add() can be called with every amount in every state of the
\* Context, and it returns at once: the call throws nothing and logs
\* nothing, leaves one more task, not yet begun, at the end of the queue of
\* the Context's Dispatcher, and changes neither the store nor the error
\* recorder nor any task in execution.
C9_AddReturnsAtOnce ==
  /\ [](\A amount \in Amounts :
          (launched < MaxTasks /\ ContextDispatcher <= MaxDisp) =>
            ENABLED Add(amount))
  /\ [][launched' = launched + 1 =>
          /\ step' = StepNone
          /\ store' = store
          /\ errors' = errors
          /\ running' = running
          /\ lastBegun' = lastBegun
          /\ \E d \in Dispatchers :
               /\ dispatcher' = d
               /\ Len(queue'[d]) = Len(queue[d]) + 1
               /\ SubSeq(queue'[d], 1, Len(queue[d])) = queue[d]
               /\ queue'[d][Len(queue'[d])].id = launched'
               /\ queue'[d][Len(queue'[d])].status = "queued"
               /\ \A e \in Dispatchers \ {d} : queue'[e] = queue[e]]_vars

\* C9: add() of a non-integer amount has returned, called on a Context with
\* no Dispatcher, no store handle and no enablement flag.
C9_Witness ==
  /\ launched = 1
  /\ created = 1
  /\ dispatcher = 1
  /\ queue[1] = << [NoTask EXCEPT !.id = 1, !.kind = "add", !.amount = Float,
                                  !.status = "queued"] >>
  /\ metricsDatabase = "undefined"
  /\ uploadEnabled = "undefined"
  /\ step = StepNone

\* The outcomes that end a task.
Ended ==
  {"skipped", "nodb", "iofail", "written", "invalid", "rejected", "read",
   "cancelled"}

\* What a recording of `amount` onto the stored value `pre` leaves: the
\* saturated sum when pre is a counter, the amount otherwise.
Expected(pre, amount) ==
  IF pre \in Positive THEN IntV(Min(pre.n + amount.n, MAX)) ELSE amount

\* C10: a store operation that failed leaves the stored value as it was and
\* the Dispatcher free, with the tasks launched later still queued in
\* their order and the oldest of them ready to run; each of them is
\* eventually run to its end (or dropped by a testUninitialize), and the
\* one that writes then writes what its own amount makes of the value
\* stored.
C10_FailureDoesNotStopQueue ==
  /\ [](step.outcome = "iofail" =>
          /\ store = step.pre
          /\ InFlight = {}
          /\ \A t \in Queued : t.id > step.id
          /\ \A d \in Dispatchers :
               (d <= created /\ queue[d] # << >>) => ENABLED Execute(d))
  /\ \A j \in 1..MaxTasks :
       (step.outcome = "iofail" /\ \E t \in Queued : t.id = j)
         ~> (/\ step.id = j
             /\ step.outcome \in Ended
             /\ step.outcome = "written" =>
                  store = Expected(step.pre, defaultAmount(step.amount)))

\* C10: the store operation of the first task has just failed, with the
\* stored value absent as before, while a second recording, launched in the
\* meantime, waits in the queue of the same Dispatcher.
C10_Witness ==
  /\ step.outcome = "iofail"
  /\ step.id = 1
  /\ store = Undefined
  /\ resets = 0
  /\ dispatcher = 1
  /\ Len(queue[1]) = 1
  /\ queue[1][1].id = 2
  /\ queue[1][1].kind = "add"
  /\ queue[1][1].amount \in Positive
  /\ running[1] = NoTask

C12_IOFailureRejects ==
  [][\A d \in Dispatchers :
       (/\ running[d].status = "transform"
        /\ step'.id = running[d].id
        /\ step'.outcome \notin {"written", "threw"})
         => step'.outcome = "rejected"]_vars

\* The task that the step begins, when the step is a Dispatcher taking a
\* task from its queue.
Begins(d) ==
  /\ queue[d] # << >>
  /\ running[d] = NoTask
  /\ lastBegun' = Head(queue[d]).id
  /\ queue' = [queue EXCEPT ![d] = Tail(@)]

\* C13 as claimed: the enablement flag is checked at the add() call, and a
\* recording task is enqueued only if the flag is set at that time.
C13_CheckedAtCall ==
  [][\A d \in Dispatchers :
       (/\ launched' = launched + 1
        /\ Len(queue'[d]) = Len(queue[d]) + 1
        /\ queue'[d][Len(queue'[d])].kind = "add")
         => uploadEnabled = "true"]_vars

\* C13, amended: the flag is checked when the task runs.  add() launches
\* its task whatever the flag is; the task goes on to the store exactly
\* when the flag is set at the time the Dispatcher begins it and ends
\* there otherwise; and a task that went on completes its store operation
\* whatever the flag has become.
C13_CheckedWhenRun ==
  /\ [](\A amount \in Amounts :
          (uploadEnabled # "true" /\ launched < MaxTasks
             /\ ContextDispatcher <= MaxDisp) => ENABLED Add(amount))
  /\ [][\A d \in Dispatchers :
          (Begins(d) /\ Head(queue[d]).kind = "add") =>
            /\ step'.id = Head(queue[d]).id
            /\ (uploadEnabled # "true") <=> (step'.outcome = "skipped")
            /\ (uploadEnabled = "true") <=>
                 (step'.outcome \in {"begun", "nodb"})
            /\ (uploadEnabled = "true" /\ metricsDatabase = "db") <=>
                 (running'[d].status = "transform")]_vars
  /\ [][\A d \in Dispatchers :
          (running[d].status = "transform" /\ running'[d] # running[d]) =>
            /\ step'.id = running[d].id
            /\ step'.outcome \in {"written", "threw", "iofail"}]_vars

\* C13: a valid recording was launched, and waits in the queue, while the
\* flag has never been set.
C13_Witness ==
  /\ uploadEnabled = "undefined"
  /\ metricsDatabase = "db"
  /\ launched = 1
  /\ Len(queue[1]) = 1
  /\ queue[1][1].kind = "add"
  /\ queue[1][1].amount \in Positive
  /\ running[1] = NoTask

\* C14: a transform that finds a value stored that is present but fails
\* the counter's validation, a falsy one included, logs exactly one warning
\* and writes the delta alone.
C14_CorruptLogged ==
  (/\ step.outcome = "written"
   /\ step.pre \in Corrupt
   /\ defaultAmount(step.amount) \in Positive) =>
    /\ step.counterLog = 1
    /\ store = defaultAmount(step.amount)

\* C15: the Context holds at most one Dispatcher, one that exists.  A
\* Dispatcher is created only by an access that finds the reference absent,
\* and it becomes the one held; an access that finds a Dispatcher held
\* returns that one; and the reference changes only by such a creation or
\* by a testUninitialize completing, so that no more Dispatchers were ever
\* created than testUninitialize calls completed, plus one.
C15_OneDispatcher ==
  /\ [](dispatcher <= created /\ created <= resets + 1)
  /\ [][created' # created =>
          /\ dispatcher = 0
          /\ created' = created + 1
          /\ dispatcher' = created']_vars
  /\ [][dispatcher' # dispatcher =>
          \/ dispatcher = 0 /\ created' = created + 1 /\ dispatcher' = created'
          \/ dispatcher' = 0 /\ resets' = resets + 1]_vars
  /\ [][(dispatcher # 0 /\ launched' = launched + 1) =>
          /\ dispatcher' = dispatcher
          /\ created' = created
          /\ Len(queue'[dispatcher]) = Len(queue[dispatcher]) + 1
          /\ queue'[dispatcher][Len(queue'[dispatcher])].id = launched']_vars

\* C15: after a testUninitialize, two accesses in a row were served by the
\* one Dispatcher created since.
C15_Witness ==
  /\ resets = 1
  /\ created = 2
  /\ dispatcher = 2
  /\ Len(queue[2]) = 2
  /\ queue[1] = << >>

\* C16: the Context's reference to a Dispatcher is cleared only by the
\* testUninitialize that awaited that Dispatcher's own testUninitialize, and
\* only once that Dispatcher has nothing queued and nothing in execution: no
\* task is in execution against the store at that moment.  Until then the
\* reference stays, and a task launched in the meantime joins the queue of
\* that Dispatcher: none is created.
C16_ClearedAfterDrain ==
  /\ [](uninit # 0 => dispatcher = uninit /\ stopping[uninit])
  /\ [][(dispatcher # 0 /\ dispatcher' = 0) =>
          /\ uninit = dispatcher
          /\ queue[dispatcher] = << >>
          /\ running[dispatcher] = NoTask
          /\ InFlight = {}
          /\ running' = running]_vars
  /\ [][(uninit # 0 /\ launched' = launched + 1) =>
          /\ dispatcher' = uninit
          /\ created' = created
          /\ Len(queue'[uninit]) = Len(queue[uninit]) + 1
          /\ queue'[uninit][Len(queue'[uninit])].id = launched']_vars

\* C16: the reference was cleared after the one Dispatcher there was had
\* applied a recording and was left with nothing to do.
C16_Witness ==
  /\ resets = 1
  /\ dispatcher = 0
  /\ uninit = 0
  /\ created = 1
  /\ stopping[1]
  /\ launched = 2
  /\ lastBegun = 2
  /\ store \in Valid
  /\ InFlight = {}
  /\ Queued = {}

\* C17: the transform of an add() with no amount does what that of an
\* add(1) does: unless the store itself fails it writes 1 when no counter
\* is stored and the stored counter plus 1, at most MAX, otherwise; it
\* ends the task there and records no error.
C17_OmittedIsOne ==
  [][\A d \in Dispatchers :
       (/\ running[d].status = "transform"
        /\ running[d].amount \in {Undefined, IntV(1)}
        /\ running'[d] # running[d]
        /\ step'.outcome # "iofail") =>
         /\ step'.outcome = "written"
         /\ step'.amount = running[d].amount
         /\ store' = IntV(IF store \in Positive
                            THEN Min(store.n + 1, MAX) ELSE 1)
         /\ running'[d] = NoTask
         /\ errors' = errors]_vars

\* C17: an add() with no amount was applied to a stored counter of MAX,
\* which it left at MAX.
C17_Witness ==
  /\ step.outcome = "written"
  /\ step.amount = Undefined
  /\ step.pre = IntV(MAX)
  /\ store = IntV(MAX)
  /\ errors = [e \in ErrorTypes |-> 0]

\* C18: a recording task that the Dispatcher begins while the enablement
\* flag is false or unset ends in that step, whatever its amount: it is
\* handed neither to the store nor to the error recorder, and the stored
\* value and the error counts stay as they were.
C18_SkippedTouchesNothing ==
  [][\A d \in Dispatchers :
       (/\ Begins(d)
        /\ Head(queue[d]).kind = "add"
        /\ uploadEnabled \in {"false", "undefined"}) =>
         /\ running'[d] = NoTask
         /\ InFlight' = InFlight
         /\ store' = store
         /\ errors' = errors
         /\ step'.outcome = "skipped"
         /\ step'.amount = Head(queue[d]).amount
         /\ step'.counterLog = 0]_vars

\* C18: an add(0) was begun while upload was disabled, with the store and
\* the error recorder set, and ended there.
C18_Witness ==
  /\ step.outcome = "skipped"
  /\ step.amount = IntV(0)
  /\ uploadEnabled = "false"
  /\ metricsDatabase = "db"
  /\ errorManager = "em"
  /\ InFlight = {}
  /\ errors = [e \in ErrorTypes |-> 0]

\* C19: a testUninitialize that completes leaves the initialized flag false
\* and the dispatcher reference absent, whatever they were.  The flag gates
\* nothing: be it true or false, add() launches its task, the task goes to
\* the store exactly when upload is enabled and the store is set, and its
\* transform, given a valid amount and unless the store itself fails,
\* writes what the amount makes of the value stored.
C19_InitializedGatesNothing ==
  /\ [][resets' = resets + 1 => (~initialized' /\ dispatcher' = 0)]_vars
  /\ [](\A init \in BOOLEAN : \A amount \in Amounts :
          (initialized = init /\ launched < MaxTasks
             /\ ContextDispatcher <= MaxDisp) => ENABLED Add(amount))
  /\ [][\A init \in BOOLEAN : \A d \in Dispatchers :
          (initialized = init /\ Begins(d)
             /\ Head(queue[d]).kind = "add") =>
            ((uploadEnabled = "true" /\ metricsDatabase = "db") <=>
               (running'[d].status = "transform"))]_vars
  /\ [][\A init \in BOOLEAN : \A d \in Dispatchers :
          (/\ initialized = init
           /\ running[d].status = "transform"
           /\ defaultAmount(running[d].amount) \in Positive
           /\ running'[d] # running[d]
           /\ step'.outcome # "iofail") =>
            /\ step'.outcome = "written"
            /\ store' = Expected(store, defaultAmount(running[d].amount))
            /\ initialized' = init]_vars

\* C19: a testUninitialize has left the flag false, and a recording
\* launched afterwards was applied all the same.
C19_Witness ==
  /\ ~initialized
  /\ resets = 1
  /\ dispatcher = 2
  /\ step.outcome = "written"
  /\ step.id = launched
  /\ lastBegun = launched
  /\ store \in Valid

=============================================================================
